---- MODULE Spec2Model ----
(***************************************************************************)
(* Travel-app backend: the place/comment aggregation and rating-update     *)
(* subsystem (main.py score_and_update_place, crud.py create_place,        *)
(* create_comment, get_comments_by_place_id, get_place_by_place_id,        *)
(* get_all_places_with_comments, ml_model.py predict_score).               *)
(*                                                                         *)
(* Numbers: Python floats are modelled as exact rationals <<n, d>> in      *)
(* lowest terms with d > 0.  Strings that the code splits or joins are     *)
(* sequences of one-character strings; other strings are TLA+ strings.     *)
(***************************************************************************)
EXTENDS Integers, Sequences, FiniteSets, TLC

\* ------------------------------------------------------------------ bounds
MaxPlaces == 2
MaxComments == 2
NumCalls == 2
MaxTags == 2

\* ------------------------------------------------------------- rationals
RECURSIVE GCD(_, _)
GCD(a, b) == IF b = 0 THEN a ELSE GCD(b, a % b)

Abs(n) == IF n < 0 THEN -n ELSE n

\* the float n/d (d > 0) as a pair in lowest terms
Rat(n, d) == LET g == GCD(Abs(n), d) IN <<n \div g, d \div g>>

RatAdd(a, b) == Rat(a[1] * b[2] + b[1] * a[2], a[2] * b[2])
RatDivInt(a, k) == Rat(a[1], a[2] * k)
RatMulInt(a, k) == Rat(a[1] * k, a[2])
RatLeq(a, b) == a[1] * b[2] <= b[1] * a[2]

Zero == <<0, 1>>
One == <<1, 1>>
Five == <<5, 1>>

\* ------------------------------------------------------------ input sets
\* comment bodies a client may post
Texts == {"ok", "bad-input"}

\* what predict_score can return for one text: the pipeline's score rounded
\* to five decimals (0.4 and 1.0 here), or the exception it raises
ScoreVals == {<<2, 5>>, One}
NoRating == <<0, 0>>
Raised == [raised |-> TRUE, score |-> NoRating]
Returned(v) == [raised |-> FALSE, score |-> v]
ScorerOutcomes == {Returned(v) : v \in ScoreVals} \cup {Raised}

\* rating_score values a client may post to createPlace (a float form field,
\* not validated)
RatingInputs == {<<3, 1>>, <<7, 1>>}

\* user ids a client may post as the owner of a place
UserIds == {1, 2}

\* characters of tag strings; "," is the storage delimiter
Comma == ","
TagValues == {<<>>, <<"a">>, <<"a", Comma, "b">>}

RECURSIVE SeqsUpTo(_, _)
SeqsUpTo(S, n) ==
  IF n = 0 THEN {<<>>}
  ELSE LET shorter == SeqsUpTo(S, n - 1)
       IN shorter \cup {Append(s, x) : s \in {t \in shorter : Len(t) = n - 1}, x \in S}

TagLists == SeqsUpTo(TagValues, MaxTags)

\* place ids a request may name: the ids that can exist and one that never does
PlaceIds == 1 .. (MaxPlaces + 1)
Calls == 1 .. NumCalls

VARIABLES
  places,        \* table places: row id = index; [rating_score, tags, user_id]
  comments,      \* table comments: row id = index; [place_id, comment_text]
  scorer,        \* the deterministic Scorer: text -> outcome of predict_score
  pc,            \* per scoreAndUpdate request: position in the handler
  place_id,      \* per request: the path parameter
  comments_list, \* per request: comment texts fetched (main.py:308)
  scores,        \* per request: scores obtained so far (main.py:313)
  avg_score_0_to_5, \* per request: the aggregate (main.py:319)
  response,      \* per request: the value returned to the client
  created,       \* history: per place, the payload create_place received
  commit_log,    \* history: the rating commits, in order: [call, place, rating_score]
  view           \* the read request in flight: its response, or NoView

vars == <<places, comments, scorer, pc, place_id, comments_list, scores,
          avg_score_0_to_5, response, created, commit_log, view>>

callVars == <<pc, place_id, comments_list, scores, avg_score_0_to_5, response,
              commit_log>>

\* ----------------------------------------------------------------- store
NoPlace == [found |-> FALSE]
NoView == [op |-> "none", status |-> "none", data |-> <<>>]

\* crud.py get_comments_by_place_id: the comment rows of one place, in row order
get_comments_by_place_id(pid) ==
  SelectSeq([i \in 1 .. Len(comments) |->
               [comment_id |-> i,
                place_id |-> comments[i].place_id,
                comment_text |-> comments[i].comment_text]],
            LAMBDA row : row.place_id = pid)

\* crud.py get_place_by_place_id: the row with that id, or None
get_place_by_place_id(pid) ==
  IF pid \in 1 .. Len(places)
  THEN [found |-> TRUE, id |-> pid, rating_score |-> places[pid].rating_score,
        tags |-> places[pid].tags, user_id |-> places[pid].user_id]
  ELSE NoPlace

\* crud.py get_places_by_user_id: the rows of one owner, in row order
get_places_by_user_id(uid) ==
  SelectSeq([p \in 1 .. Len(places) |->
               [id |-> p, rating_score |-> places[p].rating_score,
                tags |-> places[p].tags, user_id |-> places[p].user_id]],
            LAMBDA row : row.user_id = uid)

\* a session whose close writes the attributes assigned on its objects; an
\* assigned tag list reaches the column as its bracketed text
db_close_commit(table, objects) ==
  [p \in 1 .. Len(table) |->
     IF \E k \in 1 .. Len(objects) : objects[k].id = p
     THEN [table[p] EXCEPT !.tags = <<"[">> \o table[p].tags \o <<"]">>]
     ELSE table[p]]

\* main.py:36-41 get_db: the request's session is closed without a commit, so
\* attributes assigned on its objects are discarded; the table is what it was
db_close(table, objects) == table

\* str.join: the tags with "," between them
RECURSIVE Join(_)
Join(tags) ==
  IF tags = <<>> THEN <<>>
  ELSE IF Len(tags) = 1 THEN tags[1]
  ELSE tags[1] \o <<Comma>> \o Join(Tail(tags))

\* position of the first "," in s, or 0
RECURSIVE FirstComma(_, _)
FirstComma(s, i) ==
  IF i > Len(s) THEN 0
  ELSE IF s[i] = Comma THEN i
  ELSE FirstComma(s, i + 1)

\* a split that drops empty pieces, so that "" gives []
RECURSIVE Split_skip_empty(_)
Split_skip_empty(s) ==
  LET i == FirstComma(s, 1)
  IN IF i = 0 THEN (IF s = <<>> THEN <<>> ELSE <<s>>)
     ELSE (IF i = 1 THEN <<>> ELSE <<SubSeq(s, 1, i - 1)>>)
          \o Split_skip_empty(SubSeq(s, i + 1, Len(s)))

\* str.split(','): the pieces between commas; "" gives [""]
RECURSIVE Split(_)
Split(s) ==
  LET i == FirstComma(s, 1)
  IN IF i = 0 THEN <<s>>
     ELSE <<SubSeq(s, 1, i - 1)>> \o Split(SubSeq(s, i + 1, Len(s)))

\* crud.py create_place (upload succeeded): one new row, tags joined, the
\* posted rating stored as given
create_place(tags, rating, user_id) ==
  /\ Len(places) < MaxPlaces
  /\ places' = Append(places, [rating_score |-> rating, tags |-> Join(tags),
                               user_id |-> user_id])
  /\ created' = Append(created, [rating_score |-> rating, tags |-> tags,
                                 user_id |-> user_id])

\* main.py create_place_endpoint: the tags form field is split on "," and
\* handed to create_place
create_place_endpoint(tags, rating_score, user_id) ==
  /\ create_place(Split(tags), rating_score, user_id)
  /\ UNCHANGED <<comments, scorer, callVars, view>>

\* crud.py create_place called with a PlaceCreate built by another caller:
\* any list of tags
create_place_request(tags, rating_score, user_id) ==
  /\ create_place(tags, rating_score, user_id)
  /\ UNCHANGED <<comments, scorer, callVars, view>>

\* crud.py create_comment behind main.py create_comment_endpoint: one new row.
\* The place id is stored as posted; no lookup of the place is made.
create_comment(pid, text) ==
  /\ Len(comments) < MaxComments
  /\ comments' = Append(comments, [place_id |-> pid, comment_text |-> text])
  /\ UNCHANGED <<places, scorer, callVars, created, view>>

\* ---------------------------------------------------------------- scorer
\* a predict_score that swallows the pipeline's exception and scores 0
predict_score_swallow(text) ==
  IF scorer[text].raised THEN Returned(Zero) ELSE scorer[text]

\* ml_model.py predict_score: the rounded score of the text, or the exception
predict_score(text) == scorer[text]

\* ------------------------------------------------ score_and_update_place
Sum(seq) ==
  LET S[i \in 0 .. Len(seq)] == IF i = 0 THEN Zero ELSE RatAdd(S[i - 1], seq[i])
  IN S[Len(seq)]

\* main.py:316  sum(scores) / len(scores), for a non-empty list
AvgScore(scs) == RatDivInt(Sum(scs), Len(scs))

\* the raw-mean policy: no rescaling
Scale0To5_raw(avg) == avg

\* main.py:319  the 0-5 scale
Scale0To5(avg) == RatMulInt(avg, 5)

ErrorResponse(msg) == [status |-> "error", message |-> msg, rating_score |-> NoRating]
RatingResponse(r) == [status |-> "success", message |-> "", rating_score |-> r]
NoResponse == [status |-> "none", message |-> "", rating_score |-> NoRating]

PlaceNotFound == "Place not found !"
DivisionByZero == "Internal Server Error: division by zero"
PipelineError == "Internal Server Error: Error in ML model pipeline"
StoreError == "Internal Server Error: database error"

\* the request arrives
Call(c, pid) ==
  /\ pc[c] = "Idle"
  /\ pc' = [pc EXCEPT ![c] = "Fetching"]
  /\ place_id' = [place_id EXCEPT ![c] = pid]
  /\ UNCHANGED <<places, comments, scorer, comments_list, scores,
                 avg_score_0_to_5, response, created, commit_log, view>>

\* main.py:305-308  fetch the comments, keep their texts; a query the store
\* cannot serve raises inside the try block and is caught at main.py:332 (a
\* failing query at the later lookup ends the same way, in Failed with
\* nothing written, as the outcomes Persisting already has)
Fetching(c) ==
  /\ pc[c] = "Fetching"
  /\ \E served \in BOOLEAN :
       IF served
       THEN /\ LET rows == get_comments_by_place_id(place_id[c])
               IN comments_list' =
                    [comments_list EXCEPT
                       ![c] = [i \in 1 .. Len(rows) |-> rows[i].comment_text]]
            /\ pc' = [pc EXCEPT ![c] = "Scoring"]
            /\ UNCHANGED response
       ELSE /\ pc' = [pc EXCEPT ![c] = "Failed"]
            /\ response' = [response EXCEPT ![c] = ErrorResponse(StoreError)]
            /\ UNCHANGED comments_list
  /\ UNCHANGED <<places, comments, scorer, place_id, scores, avg_score_0_to_5,
                 created, commit_log, view>>

\* a handler that starts over when the Scorer raises
Scoring_retry(c) ==
  /\ pc[c] = "Scoring"
  /\ IF Len(scores[c]) = Len(comments_list[c])
     THEN /\ pc' = [pc EXCEPT ![c] = "Aggregating"]
          /\ UNCHANGED <<scores, response>>
     ELSE LET s == predict_score(comments_list[c][Len(scores[c]) + 1])
          IN IF s.raised
             THEN /\ pc' = [pc EXCEPT ![c] = "Fetching"]
                  /\ scores' = [scores EXCEPT ![c] = <<>>]
                  /\ UNCHANGED response
             ELSE /\ scores' = [scores EXCEPT ![c] = Append(@, s.score)]
                  /\ UNCHANGED <<pc, response>>
  /\ UNCHANGED <<places, comments, scorer, place_id, comments_list,
                 avg_score_0_to_5, created, commit_log, view>>

\* main.py:313  one iteration of the list comprehension, or its end; an
\* exception of predict_score leaves the try block (main.py:332-333)
Scoring(c) ==
  /\ pc[c] = "Scoring"
  /\ IF Len(scores[c]) = Len(comments_list[c])
     THEN /\ pc' = [pc EXCEPT ![c] = "Aggregating"]
          /\ UNCHANGED <<scores, response>>
     ELSE LET s == predict_score(comments_list[c][Len(scores[c]) + 1])
          IN IF s.raised
             THEN /\ pc' = [pc EXCEPT ![c] = "Failed"]
                  /\ response' = [response EXCEPT ![c] = ErrorResponse(PipelineError)]
                  /\ UNCHANGED scores
             ELSE /\ scores' = [scores EXCEPT ![c] = Append(@, s.score)]
                  /\ UNCHANGED <<pc, response>>
  /\ UNCHANGED <<places, comments, scorer, place_id, comments_list,
                 avg_score_0_to_5, created, commit_log, view>>

\* main.py:316-319  the mean and its rescaling; len(scores) = 0 raises
\* ZeroDivisionError, caught at main.py:332
Aggregating(c) ==
  /\ pc[c] = "Aggregating"
  /\ IF Len(scores[c]) = 0
     THEN /\ pc' = [pc EXCEPT ![c] = "Failed"]
          /\ response' = [response EXCEPT ![c] = ErrorResponse(DivisionByZero)]
          /\ UNCHANGED avg_score_0_to_5
     ELSE /\ avg_score_0_to_5' = [avg_score_0_to_5 EXCEPT
                                    ![c] = Scale0To5(AvgScore(scores[c]))]
          /\ pc' = [pc EXCEPT ![c] = "Persisting"]
          /\ UNCHANGED response
  /\ UNCHANGED <<places, comments, scorer, place_id, comments_list, scores,
                 created, commit_log, view>>

\* the stored rating averaged with the new aggregate
NewRating_blend(c, place) ==
  RatDivInt(RatAdd(place.rating_score, avg_score_0_to_5[c]), 2)

\* avg_score written in place of avg_score_0_to_5
NewRating_unscaled(c, place) == AvgScore(scores[c])

\* a write that never lowers a rating
NewRating_keep_higher(c, place) ==
  IF RatLeq(avg_score_0_to_5[c], place.rating_score)
  THEN place.rating_score
  ELSE avg_score_0_to_5[c]

\* main.py:324  the value assigned to place.rating_score
NewRating(c, place) == avg_score_0_to_5[c]

\* main.py:322-329  look the place up, overwrite its rating and commit
Persisting(c) ==
  /\ pc[c] = "Persisting"
  /\ LET place == get_place_by_place_id(place_id[c])
     IN IF place.found
        THEN /\ places' = [places EXCEPT ![place.id].rating_score = NewRating(c, place)]
             /\ response' = [response EXCEPT ![c] = RatingResponse(avg_score_0_to_5[c])]
             /\ pc' = [pc EXCEPT ![c] = "Done"]
             /\ commit_log' = Append(commit_log,
                    [call |-> c, place |-> place.id,
                     rating_score |-> places'[place.id].rating_score])
        ELSE /\ response' = [response EXCEPT ![c] = ErrorResponse(PlaceNotFound)]
             /\ pc' = [pc EXCEPT ![c] = "Failed"]
             /\ UNCHANGED <<places, commit_log>>
  /\ UNCHANGED <<comments, scorer, place_id, comments_list, scores,
                 avg_score_0_to_5, created, view>>

\* ---------------------------------------------------------- read requests
\* schemas.py CommentResponse: every field is required (none has a default)
CommentResponseFields ==
  {"comment_id", "comment_text", "email", "name", "commented_at", "user_id",
   "user_image", "place_id"}

\* crud.py:174-182  the keyword arguments the composer passes
ComposerKwargs ==
  {"comment_id", "comment_text", "email", "name", "commented_at", "user_id",
   "place_id"}

\* pydantic construction: a missing required field raises ValidationError
CommentResponse(kwargs, row) ==
  IF CommentResponseFields \subseteq kwargs
  THEN [raised |-> FALSE, value |-> row]
  ELSE [raised |-> TRUE, value |-> row]

\* crud.py:171-199  the loop body for one place: its comments mapped to
\* CommentResponse, its tags decoded
place_with_comments(p) ==
  LET rows == get_comments_by_place_id(p)
      built == [i \in 1 .. Len(rows) |-> CommentResponse(ComposerKwargs, rows[i])]
  IN [raised |-> \E i \in 1 .. Len(rows) : built[i].raised,
      value |-> [id |-> p,
                 tags |-> Split(places[p].tags),
                 rating_score |-> places[p].rating_score,
                 comments |-> [i \in 1 .. Len(rows) |-> built[i].value]]]

\* crud.py get_all_places_with_comments: one entry per place, or the exception
\* the loop raised
get_all_places_with_comments ==
  LET each == [p \in 1 .. Len(places) |-> place_with_comments(p)]
  IN [raised |-> \E p \in 1 .. Len(places) : each[p].raised,
      value |-> [p \in 1 .. Len(places) |-> each[p].value]]

\* main.py:229-242  the listing endpoint: the success envelope, or HTTP 500
get_all_places_with_comments_endpoint ==
  /\ view = NoView
  /\ LET r == get_all_places_with_comments
     IN view' = IF r.raised
                THEN [op |-> "placesWithComments", status |-> "http500", data |-> <<>>]
                ELSE [op |-> "placesWithComments", status |-> "success", data |-> r.value]
  /\ places' = db_close(places, <<>>)
  /\ UNCHANGED <<comments, scorer, callVars, created>>

\* main.py:166-174  one place, place.tags assigned its decoded list on the
\* session's object; None does not validate as a PlaceResponse
get_place_by_place_id_endpoint(pid) ==
  /\ view = NoView
  /\ LET place == get_place_by_place_id(pid)
     IN IF place.found
        THEN LET object == [id |-> place.id, tags |-> Split(place.tags),
                            rating_score |-> place.rating_score]
             IN /\ view' = [op |-> "getByPlaceId", status |-> "success",
                            data |-> <<object>>]
                /\ places' = db_close(places, <<object>>)
        ELSE /\ view' = [op |-> "getByPlaceId", status |-> "http500", data |-> <<>>]
             /\ places' = db_close(places, <<>>)
  /\ UNCHANGED <<comments, scorer, callVars, created>>

\* main.py:154-162  the places of one owner, each place.tags assigned its
\* decoded list on the session's object
get_places_by_user_id_endpoint(uid) ==
  /\ view = NoView
  /\ LET rows == get_places_by_user_id(uid)
         objects == [k \in 1 .. Len(rows) |->
                       [id |-> rows[k].id, tags |-> Split(rows[k].tags),
                        rating_score |-> rows[k].rating_score]]
     IN /\ view' = [op |-> "getByUserId", status |-> "success", data |-> objects]
        /\ places' = db_close(places, objects)
  /\ UNCHANGED <<comments, scorer, callVars, created>>

\* the read response leaves the server
Respond ==
  /\ view # NoView
  /\ view' = NoView
  /\ UNCHANGED <<places, comments, scorer, callVars, created>>

\* ------------------------------------------------------------------ Spec
Init ==
  /\ places = <<>>
  /\ comments = <<>>
  /\ scorer \in [Texts -> ScorerOutcomes]
  /\ pc = [c \in Calls |-> "Idle"]
  /\ place_id = [c \in Calls |-> 1]
  /\ comments_list = [c \in Calls |-> <<>>]
  /\ scores = [c \in Calls |-> <<>>]
  /\ avg_score_0_to_5 = [c \in Calls |-> NoRating]
  /\ response = [c \in Calls |-> NoResponse]
  /\ created = <<>>
  /\ commit_log = <<>>
  /\ view = NoView

Next ==
  \/ \E r \in RatingInputs : create_place_endpoint(<<"a", Comma, "b">>, r, 1)
  \/ \E pid \in PlaceIds, t \in Texts : create_comment(pid, t)
  \/ \E c \in Calls, pid \in PlaceIds : Call(c, pid)
  \/ \E c \in Calls : Fetching(c)
  \/ \E c \in Calls : Scoring(c)
  \/ \E c \in Calls : Aggregating(c)
  \/ \E c \in Calls : Persisting(c)

Spec == Init /\ [][Next]_vars

\* the read side, with one fixed Scorer
InitRead == Init /\ scorer = [t \in Texts |-> Returned(One)]

\* create_place with every tag list, and the decoding endpoint
NextTags ==
  \/ \E tags \in TagLists : create_place_request(tags, <<3, 1>>, 1)
  \/ \E pid \in PlaceIds : get_place_by_place_id_endpoint(pid)
  \/ get_all_places_with_comments_endpoint
  \/ Respond

SpecTags == InitRead /\ [][NextTags]_vars

\* places, comments and the listing endpoint
NextCompose ==
  \/ \E tags \in {<<>>, <<"a", Comma, "b">>}, r \in RatingInputs :
       create_place_endpoint(tags, r, 1)
  \/ \E pid \in PlaceIds, t \in Texts : create_comment(pid, t)
  \/ get_all_places_with_comments_endpoint
  \/ Respond

SpecCompose == InitRead /\ [][NextCompose]_vars

\* the rating update beside the read endpoints, places of two owners
NextFrame ==
  \/ \E u \in UserIds : create_place_endpoint(<<"a", Comma, "b">>, <<3, 1>>, u)
  \/ \E pid \in PlaceIds, t \in Texts : create_comment(pid, t)
  \/ \E c \in Calls, pid \in PlaceIds : Call(c, pid)
  \/ \E c \in Calls : Fetching(c)
  \/ \E c \in Calls : Scoring(c)
  \/ \E c \in Calls : Aggregating(c)
  \/ \E c \in Calls : Persisting(c)
  \/ get_all_places_with_comments_endpoint
  \/ \E pid \in PlaceIds : get_place_by_place_id_endpoint(pid)
  \/ \E u \in UserIds : get_places_by_user_id_endpoint(u)
  \/ Respond

SpecFrame == InitRead /\ [][NextFrame]_vars

\* ================================================================ claims
\* definitions of the claims' own vocabulary, independent of the handlers

Terminal == {"Done", "Failed"}
Fetched == {"Scoring", "Aggregating", "Persisting", "Done", "Failed"}

PlaceStored(p) == p \in 1 .. Len(places)

\* the comment ids of place p, ascending
CommentIdsOf(p) == {i \in 1 .. Len(comments) : comments[i].place_id = p}

RECURSIVE Ascending(_)
Ascending(S) ==
  IF S = {} THEN <<>>
  ELSE LET m == CHOOSE x \in S : \A y \in S : x <= y
       IN <<m>> \o Ascending(S \ {m})

\* the texts of the comments of place p, in retrieval order
TextsOf(p) ==
  LET ids == Ascending(CommentIdsOf(p))
  IN [i \in 1 .. Len(ids) |-> comments[ids[i]].comment_text]

IsPrefix(s, t) == Len(s) <= Len(t) /\ s = SubSeq(t, 1, Len(s))

\* 5 times the arithmetic mean of the Scorer's values for the texts
RECURSIVE ScoreTotal(_)
ScoreTotal(texts) ==
  IF texts = <<>> THEN Zero
  ELSE RatAdd(scorer[Head(texts)].score, ScoreTotal(Tail(texts)))

FiveTimesMean(texts) ==
  LET t == ScoreTotal(texts) IN Rat(5 * t[1], t[2] * Len(texts))

ScorerFailsOn(texts) == \E i \in 1 .. Len(texts) : scorer[texts[i]].raised

InZeroToFive(r) == RatLeq(Zero, r) /\ RatLeq(r, Five)

Committed(c) == \E i \in 1 .. Len(commit_log) : commit_log[i].call = c

\* the position in commit_log of the last commit on place p, or 0
LastCommit(p) ==
  LET S == {i \in 1 .. Len(commit_log) : commit_log[i].place = p}
  IN IF S = {} THEN 0 ELSE CHOOSE i \in S : \A j \in S : j <= i

\* C1: a call that fetched zero comments never reaches the aggregation step
\* and ends Failed with an outcome that is neither "place not found" nor the
\* division error, the stored ratings being untouched by it.
C1_NoCommentsFailsBeforeAggregation ==
  \A c \in Calls :
    (pc[c] \in Fetched \ {"Scoring"} /\ comments_list[c] = <<>>) =>
      /\ pc[c] = "Failed"
      /\ response[c].status = "error"
      /\ response[c].message \notin {PlaceNotFound, DivisionByZero}
      /\ ~Committed(c)

\* C2: a finished call on a place id that is not in the store returned the
\* "place not found" failure and committed nothing.
C2_AbsentPlaceIsNotFound ==
  \A c \in Calls :
    (pc[c] \in Terminal /\ ~PlaceStored(place_id[c])) =>
      /\ pc[c] = "Failed"
      /\ response[c] = ErrorResponse(PlaceNotFound)
      /\ ~Committed(c)

\* C3: every step of a call whose fetched comments include one the Scorer
\* fails on leaves the places table unchanged and keeps the call in Scoring or
\* moves it to Failed with an error envelope.
C3_ScorerFailureAborts ==
  [][\A c \in Calls :
       (/\ pc[c] \in Fetched
        /\ ScorerFailsOn(comments_list[c])
        /\ (pc'[c] # pc[c] \/ scores'[c] # scores[c])) =>
         /\ places' = places
         /\ commit_log' = commit_log
         /\ pc'[c] \in {"Scoring", "Failed"}
         /\ (pc'[c] = "Failed" =>
               /\ response'[c].status = "error"
               /\ response'[c].rating_score = NoRating)]_vars

\* a call that failed on its second comment, after scoring the first, on a
\* stored place
C3_Witness ==
  \E c \in Calls :
    /\ pc[c] = "Failed"
    /\ PlaceStored(place_id[c])
    /\ Len(comments_list[c]) = 2
    /\ Len(scores[c]) = 1
    /\ scorer[comments_list[c][2]].raised
    /\ response[c] = ErrorResponse(PipelineError)
    /\ places[place_id[c]].rating_score = created[place_id[c]].rating_score

\* C4: the step that completes a call writes, on its place, 5 times the mean of
\* the scores of the comments it fetched (which are comments of that place),
\* whatever the rating was, and returns that same value.
C4_PersistsFiveTimesMean ==
  [][\A c \in Calls :
       (pc[c] # "Done" /\ pc'[c] = "Done") =>
         /\ PlaceStored(place_id[c])
         /\ comments_list[c] # <<>>
         /\ IsPrefix(comments_list[c], TextsOf(place_id[c]))
         /\ places'[place_id[c]].rating_score = FiveTimesMean(comments_list[c])
         /\ response'[c] = RatingResponse(places'[place_id[c]].rating_score)]_vars

\* a completed call over two comments with different scores, whose place was
\* created with another rating
C4_Witness ==
  \E c \in Calls :
    /\ pc[c] = "Done"
    /\ Len(comments_list[c]) = 2
    /\ scores[c][1] # scores[c][2]
    /\ commit_log[Len(commit_log)].call = c
    /\ places[place_id[c]].rating_score = <<7, 2>>
    /\ created[place_id[c]].rating_score = <<7, 1>>

\* C5: two commits on the same place by calls that fetched the same comments
\* stored the same rating and returned the same value.
C5_Idempotent ==
  \A i \in 1 .. Len(commit_log) : \A j \in 1 .. Len(commit_log) :
    (/\ i < j
     /\ commit_log[i].place = commit_log[j].place
     /\ comments_list[commit_log[i].call] = comments_list[commit_log[j].call]) =>
      /\ commit_log[i].rating_score = commit_log[j].rating_score
      /\ response[commit_log[i].call] = response[commit_log[j].call]

\* two runs one after the other on the same place and comment set, the place
\* created with a rating that differs from the aggregate
C5_Witness ==
  /\ Len(commit_log) = 2
  /\ commit_log[1].place = commit_log[2].place
  /\ commit_log[1].call # commit_log[2].call
  /\ comments_list[commit_log[1].call] = TextsOf(commit_log[1].place)
  /\ comments_list[commit_log[2].call] = TextsOf(commit_log[1].place)
  /\ created[commit_log[1].place].rating_score # commit_log[1].rating_score
  /\ places[commit_log[1].place].rating_score = commit_log[1].rating_score

\* C6: a stored rating is the one the place was created with or the aggregate
\* held by a call on that place that has finished aggregating.
C6_RatingIsInitialOrAggregate ==
  \A p \in 1 .. Len(places) :
    \/ places[p].rating_score = created[p].rating_score
    \/ \E c \in Calls :
         /\ place_id[c] = p
         /\ pc[c] \in {"Persisting", "Done"}
         /\ places[p].rating_score = avg_score_0_to_5[c]

\* two calls on one place that fetched different comment sets both committed
C6_Witness ==
  /\ Len(commit_log) = 2
  /\ commit_log[1].place = commit_log[2].place
  /\ commit_log[1].rating_score # commit_log[2].rating_score
  /\ Len(comments_list[commit_log[1].call]) # Len(comments_list[commit_log[2].call])
  /\ places[commit_log[1].place].rating_score = commit_log[2].rating_score

\* C7: the stored rating of a place with commits is the aggregate of the call
\* that committed last on it, whatever comments that call had fetched; no
\* commit is refused or merged.
C7_LastCommitWins ==
  \A p \in 1 .. Len(places) :
    LastCommit(p) # 0 =>
      LET c == commit_log[LastCommit(p)].call
      IN /\ places[p].rating_score = avg_score_0_to_5[c]
         /\ places[p].rating_score = FiveTimesMean(comments_list[c])

\* the lost update: the last committer fetched before a comment was created,
\* the other call saw it, and the final rating is not the aggregate of the
\* place's current comments
C7_Witness ==
  /\ Len(commit_log) = 2
  /\ \A c \in Calls : pc[c] = "Done"
  /\ LET first == commit_log[1].call
         last == commit_log[2].call
         p == commit_log[2].place
     IN /\ commit_log[1].place = p
        /\ Len(comments_list[last]) = 1
        /\ comments_list[first] = TextsOf(p)
        /\ Len(TextsOf(p)) = 2
        /\ places[p].rating_score # FiveTimesMean(TextsOf(p))
        /\ commit_log[1].rating_score = FiveTimesMean(TextsOf(p))

\* C8: every stored rating lies in [0, 5].
C8_RatingsInZeroToFive ==
  \A p \in 1 .. Len(places) : InZeroToFive(places[p].rating_score)

CommaFree(tag) == \A i \in 1 .. Len(tag) : tag[i] # Comma

\* C9: the tags a read response carries for a place are the tags create_place
\* received, in order, when that list was non-empty and comma-free; a place
\* whose stored tag string is empty is returned with the one tag "".
C9_TagsRoundTrip ==
  view.status = "success" =>
    \A k \in 1 .. Len(view.data) :
      LET rec == view.data[k]
          given == created[rec.id].tags
      IN /\ (given # <<>> /\ \A i \in 1 .. Len(given) : CommaFree(given[i])) =>
              /\ places[rec.id].tags = Join(given)
              /\ rec.tags = given
         /\ places[rec.id].tags = <<>> => rec.tags = << <<>> >>

\* a listing of two places: one created with two comma-free tags, the second
\* of them empty, and one created with no tag at all
C9_Witness ==
  /\ view.op = "placesWithComments"
  /\ view.status = "success"
  /\ Len(view.data) = 2
  /\ created[1].tags = << <<"a">>, <<>> >>
  /\ view.data[1].tags = << <<"a">>, <<>> >>
  /\ created[2].tags = <<>>
  /\ places[2].tags = <<>>
  /\ view.data[2].tags = << <<>> >>

\* C10: the listing endpoint answers with one record per stored place, in
\* order, each nesting exactly the comments of that place in retrieval order.
C10_ListingIsComplete ==
  [][(view = NoView /\ view'.op = "placesWithComments") =>
       /\ view'.status = "success"
       /\ Len(view'.data) = Len(places)
       /\ \A p \in 1 .. Len(places) :
            /\ view'.data[p].id = p
            /\ [i \in 1 .. Len(view'.data[p].comments) |->
                  view'.data[p].comments[i].comment_id]
               = Ascending(CommentIdsOf(p))]_vars

\* the order of the controller's steps, and Failed from each of them
StepOrder ==
  {<<"Idle", "Fetching">>, <<"Fetching", "Scoring">>, <<"Scoring", "Aggregating">>,
   <<"Aggregating", "Persisting">>, <<"Persisting", "Done">>}
  \cup {<<s, "Failed">> : s \in {"Fetching", "Scoring", "Aggregating", "Persisting"}}

\* C11: a call changes step only along Fetching, Scoring, Aggregating,
\* Persisting, Done, or into Failed; the place lookup's outcomes (the rating
\* write, "place not found") come only from Persisting, when every fetched
\* comment has been scored and the aggregate computed; a call in Done or
\* Failed changes nothing any more, and the places table changes only by a
\* create or by a call's step from Persisting to Done.
C11_StepsInOrder ==
  [][/\ \A c \in Calls :
          /\ pc'[c] # pc[c] => <<pc[c], pc'[c]>> \in StepOrder
          /\ pc[c] \in Terminal =>
               /\ pc'[c] = pc[c]
               /\ response'[c] = response[c]
               /\ place_id'[c] = place_id[c]
               /\ comments_list'[c] = comments_list[c]
               /\ scores'[c] = scores[c]
               /\ avg_score_0_to_5'[c] = avg_score_0_to_5[c]
          /\ (response'[c] # response[c]
              /\ (response'[c].status = "success"
                  \/ response'[c].message = PlaceNotFound)) =>
               /\ pc[c] = "Persisting"
               /\ Len(scores[c]) = Len(comments_list[c])
               /\ avg_score_0_to_5[c] # NoRating
     /\ (Len(places') = Len(places) /\ places' # places) =>
          \E c \in Calls :
            /\ pc[c] = "Persisting"
            /\ pc'[c] = "Done"
            /\ Len(scores[c]) = Len(comments_list[c])
            /\ avg_score_0_to_5[c] # NoRating
            /\ \A p \in 1 .. Len(places) : p # place_id[c] => places'[p] = places[p]
     /\ commit_log' # commit_log =>
          \E c \in Calls : pc[c] = "Persisting" /\ pc'[c] = "Done"]_vars

\* one call went through every step and wrote; the other one failed at the
\* last step, on the lookup, after scoring its comment
C11_Witness ==
  \E a \in Calls, b \in Calls :
    /\ pc[a] = "Done"
    /\ Committed(a)
    /\ places[place_id[a]].rating_score # created[place_id[a]].rating_score
    /\ pc[b] = "Failed"
    /\ response[b] = ErrorResponse(PlaceNotFound)
    /\ Len(scores[b]) = 1

\* Failed is entered from each step: the message tells the step it came from
C11_FailedFromFetching ==
  \E c \in Calls : pc[c] = "Failed" /\ response[c].message = StoreError
C11_FailedFromScoring ==
  \E c \in Calls : pc[c] = "Failed" /\ response[c].message = PipelineError
C11_FailedFromAggregating ==
  \E c \in Calls : pc[c] = "Failed" /\ response[c].message = DivisionByZero

\* C12: the listing never fails on the user-image field: whenever it has
\* answered, it answered with the success envelope, and every composed
\* comment record in it carries a user_image entry.
C12_ListingSurvivesUserImage ==
  view.op = "placesWithComments" =>
    /\ view.status = "success"
    /\ \A p \in 1 .. Len(view.data) :
         \A i \in 1 .. Len(view.data[p].comments) :
           "user_image" \in DOMAIN view.data[p].comments[i]

\* a step of call c of score_and_update_place
CallStep(c) == pc'[c] # pc[c] \/ scores'[c] # scores[c]

\* a step of a read endpoint: its response appears
ReadStep == view = NoView /\ view' # NoView

\* C13: a step of score_and_update_place leaves the comments, the number of
\* places, every other place and every field but rating_score of its own place
\* unchanged; a step of a read endpoint (the listing, places by user id, place
\* by place id) leaves the places and the comments unchanged.
C13_OnlyTheRatingIsWritten ==
  [][/\ \A c \in Calls :
          CallStep(c) =>
            /\ comments' = comments
            /\ Len(places') = Len(places)
            /\ \A p \in 1 .. Len(places) :
                 /\ p # place_id[c] => places'[p] = places[p]
                 /\ places'[p].tags = places[p].tags
                 /\ places'[p].user_id = places[p].user_id
     /\ ReadStep => (places' = places /\ comments' = comments)]_vars

\* a call has overwritten the rating of place 1 beside an untouched place 2 and
\* a stored comment, and the places of user 1 have been read with their tags
\* decoded while the stored tag string is still the joined one
C13_Witness ==
  /\ Len(places) = 2
  /\ \E c \in Calls : pc[c] = "Done" /\ place_id[c] = 1
  /\ places[1].rating_score # created[1].rating_score
  /\ places[2] = [rating_score |-> <<3, 1>>, tags |-> <<"a", Comma, "b">>,
                  user_id |-> 1]
  /\ Len(comments) >= 1
  /\ view.op = "getByUserId"
  /\ Len(view.data) = 2
  /\ view.data[1].tags = << <<"a">>, <<"b">> >>
  /\ places[1].tags = <<"a", Comma, "b">>

====
